---- MODULE Spec2Model ----
(***************************************************************************)
(* Model of src/strategies.py: the homemade move-selection strategies      *)
(* (MinimalEngine, RandomMove, Alphabetical, FirstMove, WorstFish) and,    *)
(* from the specification only, the ILoveDraws policy.                     *)
(*                                                                         *)
(* A move is identified by its index in the generation order of            *)
(* board.legal_moves, so the legal moves of a position with n moves are    *)
(* <<1, ..., n>>.  What the rules engine and the oracle report about a     *)
(* move (its SAN text, its UCI text, whether it captures, whether it       *)
(* gives check, its evaluation) is an input, drawn per move.               *)
(*                                                                         *)
(* Times are Python floats, modelled bit for bit: every operation on       *)
(* them rounds its exact result to the nearest binary64 value.             *)
(***************************************************************************)
EXTENDS Integers, Sequences, FiniteSets, TLC

\* ------------------------------------------------------------- bounds
MaxMoves == 3

MaxEval == 1

MaxQuits == 2

MaxClockTicks == 45

\* ------------------------------------------------- program constants
\* timeLeft /= 1000
MsPerSecond == 1000

\* timeLeft / 10
TimeFraction == 10

VARIABLES
    policy,          \* class of the engine instance
    pc,              \* where the current call stands
    board,           \* the chess.Board handed to search
    san,             \* board.san: move -> rank of its SAN text
    uci,             \* str(move): move -> rank of its UCI text
    timeLeft,        \* search's timeLeft parameter
    legalMoves,      \* local list/tuple of moves (legalMoves / moves)
    searchTime,      \* WorstFish: per-candidate search time
    i,               \* loop position in legalMoves (1-based)
    isCapture,       \* move.isCapture, for the moves tagged so far
    isCheck,         \* move.isCheck, for the moves tagged so far
    evaluations,     \* evaluation the oracle returned for legalMoves[k]
    worstEvaluation, \* running extremum (None before the first candidate)
    worstMoves,      \* moves tied at worstEvaluation
    result,          \* move returned by search (NoMove while none)
    error,           \* exception that left the call ("" while none)
    queries,         \* number of oracle queries made in this call
    limitsHanded,    \* time limits handed to the oracle in this call
    oracleFailed,    \* an oracle query of this call failed
    closeCalls,      \* number of times stockfish.close() was invoked
    wtime, btime,    \* search_with_ponder's clock arguments
    ponder,          \* search_with_ponder's ponder argument
    searchPonder,    \* the ponder value search received
    caller,          \* "search_with_ponder" when search was delegated to
    ponderResult     \* value search_with_ponder returned

vars == <<policy, pc, board, san, uci, timeLeft, legalMoves, searchTime, i,
          isCapture, isCheck, evaluations, worstEvaluation, worstMoves,
          result, error, queries, limitsHanded, oracleFailed, closeCalls,
          wtime, btime, ponder, searchPonder, caller, ponderResult>>

\* ------------------------------------------------------------ values
Moves == 1..MaxMoves

NoMove == 0

\* evaluations the oracle reports: one negative score, zero, positive scores
Evals == (0 - 1)..MaxEval

None == [isNone |-> TRUE, val |-> 0]

Some(e) == [isNone |-> FALSE, val |-> e]

Range(s) == {s[k] : k \in DOMAIN s}

Abs(x) == IF x < 0 THEN 0 - x ELSE x

\* ------------------------------------------------- natural numbers
\* A natural number of any size: its digits in base LimbBase, least
\* significant first, no leading zero digit; <<>> is 0.
LimbBits == 15

LimbBase == 32768

RECURSIVE Pow2(_)
Pow2(k) == IF k = 0 THEN 1 ELSE 2 * Pow2(k - 1)

RECURSIVE Trim(_)
Trim(x) ==
    IF x = <<>> THEN <<>>
    ELSE IF x[Len(x)] = 0 THEN Trim(SubSeq(x, 1, Len(x) - 1))
    ELSE x

RECURSIVE BFromInt(_)
BFromInt(k) == IF k = 0 THEN <<>> ELSE <<k % LimbBase>> \o BFromInt(k \div LimbBase)

RECURSIVE BitsOf(_)
BitsOf(k) == IF k = 0 THEN 0 ELSE 1 + BitsOf(k \div 2)

BitLen(x) == IF x = <<>> THEN 0 ELSE LimbBits * (Len(x) - 1) + BitsOf(x[Len(x)])

BIsOdd(x) == x # <<>> /\ x[1] % 2 = 1

\* x * k + c for small k and c
RECURSIVE BMulAdd(_, _, _)
BMulAdd(x, k, c) ==
    IF x = <<>> THEN BFromInt(c)
    ELSE <<(x[1] * k + c) % LimbBase>> \o BMulAdd(Tail(x), k, (x[1] * k + c) \div LimbBase)

\* quotient (untrimmed) and remainder of x by a small d
RECURSIVE BDivRem(_, _)
BDivRem(x, d) ==
    IF x = <<>> THEN [q |-> <<>>, r |-> 0]
    ELSE LET hi  == BDivRem(Tail(x), d)
             cur == hi.r * LimbBase + x[1]
         IN  [q |-> <<cur \div d>> \o hi.q, r |-> cur % d]

\* x - y - borrow, for x >= y + borrow (untrimmed)
RECURSIVE BSubBorrow(_, _, _)
BSubBorrow(x, y, borrow) ==
    IF x = <<>> THEN <<>>
    ELSE LET yd == IF y = <<>> THEN 0 ELSE y[1]
             d  == x[1] - yd - borrow
         IN  IF d < 0
             THEN <<d + LimbBase>> \o BSubBorrow(Tail(x), IF y = <<>> THEN <<>> ELSE Tail(y), 1)
             ELSE <<d>> \o BSubBorrow(Tail(x), IF y = <<>> THEN <<>> ELSE Tail(y), 0)

BSub(x, y) == Trim(BSubBorrow(x, y, 0))

RECURSIVE BLess(_, _)
BLess(x, y) ==
    IF Len(x) # Len(y) THEN Len(x) < Len(y)
    ELSE IF x = <<>> THEN FALSE
    ELSE IF x[Len(x)] # y[Len(y)] THEN x[Len(x)] < y[Len(y)]
    ELSE BLess(SubSeq(x, 1, Len(x) - 1), SubSeq(y, 1, Len(y) - 1))

\* x * 2^s
BShiftLeft(x, s) ==
    IF x = <<>> THEN <<>>
    ELSE [k \in 1..(s \div LimbBits) |-> 0] \o BMulAdd(x, Pow2(s % LimbBits), 0)

\* x \div 2^s, and whether a one bit was shifted out
BShiftRight(x, s) ==
    LET whole   == s \div LimbBits
        dropped == SubSeq(x, 1, whole)
        rest    == SubSeq(x, whole + 1, Len(x))
        dr      == BDivRem(rest, Pow2(s % LimbBits))
    IN  [q |-> Trim(dr.q),
         lost |-> dr.r # 0 \/ \E k \in DOMAIN dropped : dropped[k] # 0]

\* ------------------------------------------ binary floating point
\* A Python float (IEEE 754 binary64) of the magnitudes met here (no
\* subnormals, no overflow): value = (-1)^neg * m * 2^e with m a natural
\* number of exactly MantissaBits bits, or m = <<>> for 0.0.
MantissaBits == 53

DZero == [neg |-> FALSE, m |-> <<>>, e |-> 0]

\* the float nearest to (n + f) * 2^e, ties to even, where 0 < f < 1 when
\* sticky and f = 0 otherwise
Round(n, sticky, e) ==
    IF n = <<>> THEN DZero
    ELSE IF BitLen(n) <= MantissaBits
    THEN [neg |-> FALSE, m |-> BShiftLeft(n, MantissaBits - BitLen(n)),
          e |-> e - (MantissaBits - BitLen(n))]
    ELSE LET s     == BitLen(n) - MantissaBits
             sh    == BShiftRight(n, s - 1)
             guard == BIsOdd(sh.q)
             q     == BShiftRight(sh.q, 1).q
             up    == guard /\ (sh.lost \/ sticky \/ BIsOdd(q))
             r     == IF up THEN BMulAdd(q, 1, 1) ELSE q
         IN  IF BitLen(r) > MantissaBits
             THEN [neg |-> FALSE, m |-> BShiftRight(r, 1).q, e |-> e + s + 1]
             ELSE [neg |-> FALSE, m |-> r, e |-> e + s]

\* float(k) for an int k >= 0
DFromInt(k) == Round(BFromInt(k), FALSE, 0)

\* a / d for a float a >= 0 and an int d > 0
DDivInt(a, d) ==
    LET dr == BDivRem(BShiftLeft(a.m, 4 * LimbBits), d)
    IN  Round(Trim(dr.q), dr.r # 0, a.e - 4 * LimbBits)

\* k * a for a float a >= 0 and an int k > 0
DMulInt(a, k) == Round(BMulAdd(a.m, k, 0), FALSE, a.e)

\* a < b for floats a, b >= 0
DLess(a, b) ==
    IF b.m = <<>> THEN FALSE
    ELSE IF a.m = <<>> THEN TRUE
    ELSE a.e < b.e \/ (a.e = b.e /\ BLess(a.m, b.m))

DLeq(a, b) == ~DLess(b, a)

\* a - b for floats a, b >= 0
DSub(a, b) ==
    IF b.m = <<>> THEN a
    ELSE IF a.m = <<>> THEN [b EXCEPT !.neg = TRUE]
    ELSE LET emin == IF a.e < b.e THEN a.e ELSE b.e
             na   == BShiftLeft(a.m, a.e - emin)
             nb   == BShiftLeft(b.m, b.e - emin)
         IN  IF BLess(na, nb)
             THEN [Round(BSub(nb, na), FALSE, emin) EXCEPT !.neg = TRUE]
             ELSE Round(BSub(na, nb), FALSE, emin)

\* a > 0
DPositive(a) == ~a.neg /\ a.m # <<>>

\* the float a decimal literal num/den denotes
Literal(num, den) == DDivInt(DFromInt(num), den)

\* ------------------------------------------------------------- board
\* list(board.legal_moves): the replies after a probing push are the
\* opponent's and are not candidates of this call.
LegalMoves(b) == IF b.stack = <<>> THEN b.moves ELSE <<>>

\* board.turn
Turn(b) == IF Len(b.stack) % 2 = 0 THEN b.turn ELSE ~b.turn

\* board.push(move)
Push(b, m) == [b EXCEPT !.stack = Append(@, m)]

PopLeaks(b) == b

\* board.pop()
Pop(b) == [b EXCEPT !.stack = SubSeq(@, 1, Len(@) - 1)]

NewBoard(n, turn) == [moves |-> [k \in 1..n |-> k], turn |-> turn, stack |-> <<>>]

\* rank tables: injective maps from the moves of a position to 1..n
Ranks(n) == {f \in [1..n -> 1..n] : \A a, b \in 1..n : f[a] = f[b] => a = b}

Identity(n) == [k \in 1..n |-> k]

\* ----------------------------------------------------------- helpers
\* list.sort(key=...): stable insertion into an ascending list
RECURSIVE Insert(_, _, _)
Insert(sorted, m, key) ==
    IF sorted = <<>> THEN <<m>>
    ELSE IF key[m] < key[Head(sorted)] THEN <<m>> \o sorted
    ELSE <<Head(sorted)>> \o Insert(Tail(sorted), m, key)

RECURSIVE SortBy(_, _)
SortBy(s, key) ==
    IF s = <<>> THEN <<>>
    ELSE Insert(SortBy(SubSeq(s, 1, Len(s) - 1), key), s[Len(s)], key)

RandomChoicePastEnd(s) == Range(s) \cup {Len(s) + 1}

\* random.choice(s)
RandomChoice(s) == Range(s)

\* seq filtered by a predicate on moves, order kept
RECURSIVE Filter(_, _)
Filter(s, keep) ==
    IF s = <<>> THEN <<>>
    ELSE IF Head(s) \in keep THEN <<Head(s)>> \o Filter(Tail(s), keep)
    ELSE Filter(Tail(s), keep)

\* ------------------------------------------------------- time budget
\* searchTime = 0.1
BaseSearchTime == Literal(1, 10)

\* the 0.01 subtracted in evaluate
SafetyMargin == Literal(1, 100)

LimitMode == [isLimit |-> TRUE, ms |-> 0]

Clock(ms) == [isLimit |-> FALSE, ms |-> ms]

\* timeLeft /= 1000; timeLeft / 10
TenthOfTimeLeft(ms) == DDivInt(DDivInt(DFromInt(ms), MsPerSecond), TimeFraction)

\* len(legalMoves) * searchTime > timeLeft / 10
ShrinkGuard(ms, n) == DLess(TenthOfTimeLeft(ms), DMulInt(BaseSearchTime, n))

SearchTimeTimesCount(tl, n) ==
    IF tl.isLimit THEN BaseSearchTime
    ELSE IF ShrinkGuard(tl.ms, n)
    THEN DMulInt(TenthOfTimeLeft(tl.ms), n)
    ELSE BaseSearchTime

\* WorstFish.search, the per-candidate search time
SearchTime(tl, n) ==
    IF tl.isLimit THEN BaseSearchTime
    ELSE IF ShrinkGuard(tl.ms, n)
    THEN DDivInt(TenthOfTimeLeft(tl.ms), n)
    ELSE BaseSearchTime

\* WorstFish.evaluate: chess.engine.Limit(time=timeLimit - 0.01)
OracleLimit(timeLimit) == DSub(timeLimit, SafetyMargin)

\* ---------------------------------------------------- WorstFish parts
TrackDropsTies(we, wm, move, evaluation) ==
    IF we.isNone \/ we.val <= evaluation
    THEN [eval |-> Some(evaluation), moves |-> <<move>>]
    ELSE [eval |-> we, moves |-> wm]

\* the running maximum and the moves tied at it
Track(we, wm, move, evaluation) ==
    IF we.isNone \/ we.val < evaluation
    THEN [eval |-> Some(evaluation), moves |-> <<move>>]
    ELSE IF we.val = evaluation
    THEN [eval |-> we, moves |-> Append(wm, move)]
    ELSE [eval |-> we, moves |-> wm]

WorstCaptures(wm, cap, chk) == Filter(wm, {m \in Range(wm) : cap[m]})

WorstChecks(wm, cap, chk) == Filter(wm, {m \in Range(wm) : ~cap[m] /\ chk[m]})

WorstOther(wm, cap, chk) == Filter(wm, {m \in Range(wm) : ~cap[m] /\ ~chk[m]})

PreferredCapturesFirst(wm, cap, chk) ==
    IF Len(WorstCaptures(wm, cap, chk)) # 0 THEN WorstCaptures(wm, cap, chk)
    ELSE IF Len(WorstChecks(wm, cap, chk)) # 0 THEN WorstChecks(wm, cap, chk)
    ELSE WorstOther(wm, cap, chk)

\* the list random.choice draws from: Other, then Checks, then Captures
Preferred(wm, cap, chk) ==
    IF Len(WorstOther(wm, cap, chk)) # 0 THEN WorstOther(wm, cap, chk)
    ELSE IF Len(WorstChecks(wm, cap, chk)) # 0 THEN WorstChecks(wm, cap, chk)
    ELSE WorstCaptures(wm, cap, chk)

\* ------------------------------------------------------------ policies
OraclePolicies == {"WorstFish", "ILoveDraws"}

ConcretePolicies == {"RandomMove", "Alphabetical", "FirstMove"} \cup OraclePolicies

PonderPolicies == {"MinimalEngine", "RandomMove", "Alphabetical", "FirstMove"}

\* clock readings (ms) the driver hands to search, and the first-move Limit
TimeLefts == {LimitMode, Clock(50), Clock(60000)}

PonderClocks == {50, 250, 60000}

BudgetClocks == {LimitMode} \cup {Clock(100 * k) : k \in 0..MaxClockTicks}

SanTables(p, n) == IF p = "Alphabetical" THEN Ranks(n) ELSE {Identity(n)}

UciTables(p, n) == IF p = "FirstMove" THEN Ranks(n) ELSE {Identity(n)}

\* ---------------------------------------------------------------- Init
Fresh ==
    /\ pc = "idle"
    /\ board = NewBoard(1, TRUE)
    /\ san = Identity(1)
    /\ uci = Identity(1)
    /\ timeLeft = LimitMode
    /\ legalMoves = <<>>
    /\ searchTime = BaseSearchTime
    /\ i = 0
    /\ isCapture = <<>>
    /\ isCheck = <<>>
    /\ evaluations = <<>>
    /\ worstEvaluation = None
    /\ worstMoves = <<>>
    /\ result = NoMove
    /\ error = ""
    /\ queries = 0
    /\ limitsHanded = {}
    /\ oracleFailed = FALSE
    /\ closeCalls = 0
    /\ wtime = 0
    /\ btime = 0
    /\ ponder = FALSE
    /\ searchPonder = FALSE
    /\ caller = ""
    /\ ponderResult = NoMove

Init == policy \in ConcretePolicies /\ Fresh

InitPonder == policy \in PonderPolicies /\ Fresh

InitBudget == policy = "WorstFish" /\ Fresh

\* -------------------------------------------------------------- calls
\* the state of a call to search(board, timeLeft, ponder) at its first line
EnterSearch(b, s, u, tl) ==
    /\ pc' = "search"
    /\ board' = b
    /\ san' = s
    /\ uci' = u
    /\ timeLeft' = tl
    /\ legalMoves' = <<>>
    /\ searchTime' = BaseSearchTime
    /\ i' = 0
    /\ isCapture' = <<>>
    /\ isCheck' = <<>>
    /\ evaluations' = <<>>
    /\ worstEvaluation' = None
    /\ worstMoves' = <<>>
    /\ result' = NoMove
    /\ error' = ""
    /\ queries' = 0
    /\ limitsHanded' = {}
    /\ oracleFailed' = FALSE
    /\ ponderResult' = NoMove

\* a call is made on an engine that is not in a call; nothing in the code
\* refuses a call after quit
Callable == pc = "idle"

\* the driver calls search on a position
Search ==
    /\ Callable
    /\ \E n \in 1..MaxMoves, turn \in BOOLEAN, tl \in TimeLefts :
         \E s \in SanTables(policy, n), u \in UciTables(policy, n) :
            EnterSearch(NewBoard(n, turn), s, u, tl)
    /\ UNCHANGED <<policy, closeCalls, wtime, btime, ponder, searchPonder, caller>>

\* the call is over (search returned or raised, search_with_ponder returned
\* or let the exception through): its frame is gone and the engine can be
\* called again
CallEnds ==
    /\ \/ pc \in {"raised", "done"}
       \/ pc = "returned" /\ caller = ""
    /\ pc' = "idle"
    /\ board' = NewBoard(1, TRUE)
    /\ san' = Identity(1)
    /\ uci' = Identity(1)
    /\ timeLeft' = LimitMode
    /\ legalMoves' = <<>>
    /\ searchTime' = BaseSearchTime
    /\ i' = 0
    /\ isCapture' = <<>>
    /\ isCheck' = <<>>
    /\ evaluations' = <<>>
    /\ worstEvaluation' = None
    /\ worstMoves' = <<>>
    /\ result' = NoMove
    /\ error' = ""
    /\ queries' = 0
    /\ limitsHanded' = {}
    /\ oracleFailed' = FALSE
    /\ wtime' = 0
    /\ btime' = 0
    /\ ponder' = FALSE
    /\ searchPonder' = FALSE
    /\ caller' = ""
    /\ ponderResult' = NoMove
    /\ UNCHANGED <<policy, closeCalls>>

ClockOfOtherSide(b, w, bl) == IF Turn(b) THEN bl ELSE w

\* search_with_ponder: timeleft = wtime if board.turn else btime
ClockOfSideToMove(b, w, bl) == IF Turn(b) THEN w ELSE bl

\* MinimalEngine.search_with_ponder up to the call of self.search
SearchWithPonder ==
    /\ Callable
    /\ \E n \in 1..MaxMoves, turn \in BOOLEAN, w \in PonderClocks,
          bl \in PonderClocks, p \in BOOLEAN :
         \E s \in SanTables(policy, n), u \in UciTables(policy, n) :
            /\ wtime' = w
            /\ btime' = bl
            /\ ponder' = p
            /\ searchPonder' = p
            /\ caller' = "search_with_ponder"
            /\ EnterSearch(NewBoard(n, turn), s, u,
                           Clock(ClockOfSideToMove(NewBoard(n, turn), w, bl)))
    /\ UNCHANGED <<policy, closeCalls>>

\* search_with_ponder returns what search returned
SearchWithPonderReturn ==
    /\ pc = "returned"
    /\ caller = "search_with_ponder"
    /\ ponderResult' = result
    /\ pc' = "done"
    /\ UNCHANGED <<policy, board, san, uci, timeLeft, legalMoves, searchTime, i,
                   isCapture, isCheck, evaluations, worstEvaluation, worstMoves,
                   result, error, queries, limitsHanded, oracleFailed, closeCalls,
                   wtime, btime, ponder, searchPonder, caller>>

\* MinimalEngine.search: raise NotImplementedError
BaseSearch ==
    /\ pc = "search"
    /\ policy = "MinimalEngine"
    /\ pc' = "raised"
    /\ error' = "NotImplementedError"
    /\ UNCHANGED <<policy, board, san, uci, timeLeft, legalMoves, searchTime, i,
                   isCapture, isCheck, evaluations, worstEvaluation, worstMoves,
                   result, queries, limitsHanded, oracleFailed, closeCalls,
                   wtime, btime, ponder, searchPonder, caller, ponderResult>>

\* what a search body that only picks from a list leaves alone
TrivialFrame ==
    UNCHANGED <<policy, board, san, uci, timeLeft, searchTime, i, isCapture,
                isCheck, evaluations, worstEvaluation, worstMoves, error, queries,
                limitsHanded, oracleFailed, closeCalls, wtime, btime, ponder,
                searchPonder, caller, ponderResult>>

\* RandomMove.search
RandomMoveSearch ==
    /\ pc = "search"
    /\ policy = "RandomMove"
    /\ legalMoves' = LegalMoves(board)
    /\ result' \in RandomChoice(LegalMoves(board))
    /\ pc' = "returned"
    /\ TrivialFrame

\* Alphabetical.search
AlphabeticalSearch ==
    /\ pc = "search"
    /\ policy = "Alphabetical"
    /\ legalMoves' = SortBy(LegalMoves(board), san)
    /\ result' = legalMoves'[1]
    /\ pc' = "returned"
    /\ TrivialFrame

\* FirstMove.search
FirstMoveSearch ==
    /\ pc = "search"
    /\ policy = "FirstMove"
    /\ legalMoves' = SortBy(LegalMoves(board), uci)
    /\ result' = legalMoves'[1]
    /\ pc' = "returned"
    /\ TrivialFrame

\* ----------------------------------------------------------- WorstFish
\* what the WorstFish loop never touches
LoopFrame ==
    UNCHANGED <<policy, san, uci, timeLeft, closeCalls, wtime, btime, ponder,
                searchPonder, caller, ponderResult>>

\* WorstFish.search up to the loop: the tuple of legal moves, the search
\* time, worstEvaluation = None, worstMoves = []
WorstFishStart ==
    /\ pc = "search"
    /\ policy = "WorstFish"
    /\ legalMoves' = LegalMoves(board)
    /\ searchTime' = SearchTime(timeLeft, Len(LegalMoves(board)))
    /\ worstEvaluation' = None
    /\ worstMoves' = <<>>
    /\ i' = 1
    /\ pc' = "loop"
    /\ UNCHANGED <<board, isCapture, isCheck, evaluations, result, error, queries,
                   limitsHanded, oracleFailed>>
    /\ LoopFrame

\* loop body up to the oracle call: tag the capture, push, tag the check
WorstFishPush ==
    /\ pc = "loop"
    /\ policy = "WorstFish"
    /\ i <= Len(legalMoves)
    /\ \E cap \in BOOLEAN, chk \in BOOLEAN :
         /\ isCapture' = [m \in DOMAIN isCapture \cup {legalMoves[i]} |->
                            IF m = legalMoves[i] THEN cap ELSE isCapture[m]]
         /\ isCheck' = [m \in DOMAIN isCheck \cup {legalMoves[i]} |->
                            IF m = legalMoves[i] THEN chk ELSE isCheck[m]]
    /\ board' = Push(board, legalMoves[i])
    /\ pc' = "evaluate"
    /\ UNCHANGED <<legalMoves, searchTime, i, evaluations, worstEvaluation,
                   worstMoves, result, error, queries, limitsHanded, oracleFailed>>
    /\ LoopFrame

\* the oracle answers: compare with worstEvaluation, then pop
WorstFishEvaluate ==
    /\ pc = "evaluate"
    /\ policy = "WorstFish"
    /\ queries' = queries + 1
    /\ limitsHanded' = limitsHanded \cup {OracleLimit(searchTime)}
    /\ \E evaluation \in Evals :
         LET t == Track(worstEvaluation, worstMoves, legalMoves[i], evaluation)
         IN  /\ evaluations' = Append(evaluations, evaluation)
             /\ worstEvaluation' = t.eval
             /\ worstMoves' = t.moves
    /\ board' = Pop(board)
    /\ i' = i + 1
    /\ pc' = "loop"
    /\ UNCHANGED <<legalMoves, searchTime, isCapture, isCheck, result, error,
                   oracleFailed>>
    /\ LoopFrame

OracleFailureSwallowed ==
    /\ board' = Pop(board)
    /\ i' = i + 1
    /\ pc' = "loop"
    /\ UNCHANGED error

\* an exception raised by stockfish.analyse leaves evaluate and search:
\* neither has a handler, so the pop and the rest of the loop are skipped
OracleFailurePropagates ==
    /\ board' = board
    /\ i' = i
    /\ pc' = "raised"
    /\ error' = "EngineError"

\* the oracle fails during the query
WorstFishOracleFails ==
    /\ pc = "evaluate"
    /\ policy = "WorstFish"
    /\ queries' = queries + 1
    /\ limitsHanded' = limitsHanded \cup {OracleLimit(searchTime)}
    /\ oracleFailed' = TRUE
    /\ OracleFailurePropagates
    /\ UNCHANGED <<legalMoves, searchTime, isCapture, isCheck, evaluations,
                   worstEvaluation, worstMoves, result>>
    /\ LoopFrame

\* after the loop: categorise the tied moves and return a random one of the
\* preferred category
WorstFishChoose ==
    /\ pc = "loop"
    /\ policy = "WorstFish"
    /\ i > Len(legalMoves)
    /\ result' \in RandomChoice(Preferred(worstMoves, isCapture, isCheck))
    /\ pc' = "returned"
    /\ UNCHANGED <<board, legalMoves, searchTime, i, isCapture, isCheck,
                   evaluations, worstEvaluation, worstMoves, error, queries,
                   limitsHanded, oracleFailed>>
    /\ LoopFrame

\* WorstFish.quit: self.stockfish.close(), whatever was called before.
\* A search made after quit queries the closed handle; what the engine
\* library then does is one of the outcomes of a query (an answer or a
\* failure).
Quit ==
    /\ pc = "idle"
    /\ policy = "WorstFish"
    /\ closeCalls < MaxQuits
    /\ closeCalls' = closeCalls + 1
    /\ UNCHANGED <<policy, pc, board, san, uci, timeLeft, legalMoves, searchTime,
                   i, isCapture, isCheck, evaluations, worstEvaluation, worstMoves,
                   result, error, queries, limitsHanded, oracleFailed, wtime,
                   btime, ponder, searchPonder, caller, ponderResult>>

\* ---------------------------------------------------------- ILoveDraws
\* the drawishness threshold 0.1
DrawThreshold == [num |-> 1, den |-> 10]

Drawish(evaluation) == Abs(evaluation) * DrawThreshold.den <= DrawThreshold.num

Shuffles(s) == {[k \in 1..Len(s) |-> s[f[k]]] : f \in Ranks(Len(s))}

\* the running minimum of |evaluation| and the moves tied at it
TrackMin(we, wm, move, a) ==
    IF we.isNone \/ a < we.val
    THEN [eval |-> Some(a), moves |-> <<move>>]
    ELSE IF we.val = a
    THEN [eval |-> we, moves |-> Append(wm, move)]
    ELSE [eval |-> we, moves |-> wm]

\* shuffle the legal moves
ILoveDrawsStart ==
    /\ pc = "search"
    /\ policy = "ILoveDraws"
    /\ legalMoves' \in Shuffles(LegalMoves(board))
    /\ worstEvaluation' = None
    /\ worstMoves' = <<>>
    /\ i' = 1
    /\ pc' = "loop"
    /\ UNCHANGED <<board, searchTime, isCapture, isCheck, evaluations, result,
                   error, queries, limitsHanded, oracleFailed>>
    /\ LoopFrame

ProbeWithoutEarlyExit(evaluation) ==
    LET t == TrackMin(worstEvaluation, worstMoves, legalMoves[i], Abs(evaluation))
    IN  /\ worstEvaluation' = t.eval
        /\ worstMoves' = t.moves
        /\ i' = i + 1
        /\ pc' = "loop"
        /\ result' = result

\* what one probe does with the oracle's answer
Probe(evaluation) ==
    IF Drawish(evaluation)
    THEN /\ result' = legalMoves[i]
         /\ pc' = "returned"
         /\ UNCHANGED <<worstEvaluation, worstMoves, i>>
    ELSE LET t == TrackMin(worstEvaluation, worstMoves, legalMoves[i], Abs(evaluation))
         IN  /\ worstEvaluation' = t.eval
             /\ worstMoves' = t.moves
             /\ i' = i + 1
             /\ pc' = "loop"
             /\ result' = result

\* apply the candidate, query the oracle, undo
ILoveDrawsProbe ==
    /\ pc = "loop"
    /\ policy = "ILoveDraws"
    /\ i <= Len(legalMoves)
    /\ queries' = queries + 1
    /\ \E evaluation \in Evals :
         /\ evaluations' = Append(evaluations, evaluation)
         /\ Probe(evaluation)
    /\ board' = Pop(Push(board, legalMoves[i]))
    /\ UNCHANGED <<legalMoves, searchTime, isCapture, isCheck, error,
                   limitsHanded, oracleFailed>>
    /\ LoopFrame

\* no early exit fired: a random move among those tied at the minimum
ILoveDrawsChoose ==
    /\ pc = "loop"
    /\ policy = "ILoveDraws"
    /\ i > Len(legalMoves)
    /\ result' \in RandomChoice(worstMoves)
    /\ pc' = "returned"
    /\ UNCHANGED <<board, legalMoves, searchTime, i, isCapture, isCheck,
                   evaluations, worstEvaluation, worstMoves, error, queries,
                   limitsHanded, oracleFailed>>
    /\ LoopFrame

\* -------------------------------------------------------- time budget
\* the allocator of WorstFish.search applied to a clock reading and a
\* candidate count
AllocateBudget ==
    /\ \E n \in 1..MaxMoves, tl \in BudgetClocks :
         /\ legalMoves' = Identity(n)
         /\ timeLeft' = tl
         /\ searchTime' = SearchTime(tl, n)
    /\ pc' = "budget"
    /\ UNCHANGED <<policy, board, san, uci, i, isCapture, isCheck, evaluations,
                   worstEvaluation, worstMoves, result, error, queries,
                   limitsHanded, oracleFailed, closeCalls, wtime, btime, ponder,
                   searchPonder, caller, ponderResult>>

\* ------------------------------------------------------ specifications
Next ==
    \/ Search
    \/ CallEnds
    \/ RandomMoveSearch
    \/ AlphabeticalSearch
    \/ FirstMoveSearch
    \/ WorstFishStart
    \/ WorstFishPush
    \/ WorstFishEvaluate
    \/ WorstFishOracleFails
    \/ WorstFishChoose
    \/ Quit
    \/ ILoveDrawsStart
    \/ ILoveDrawsProbe
    \/ ILoveDrawsChoose

Spec == Init /\ [][Next]_vars

NextPonder ==
    \/ SearchWithPonder
    \/ CallEnds
    \/ SearchWithPonderReturn
    \/ BaseSearch
    \/ RandomMoveSearch
    \/ AlphabeticalSearch
    \/ FirstMoveSearch

SpecPonder == InitPonder /\ [][NextPonder]_vars

NextBudget == AllocateBudget

SpecBudget == InitBudget /\ [][NextBudget]_vars

\* -------------------------------------------------------------- claims
SourcePolicies == {"RandomMove", "Alphabetical", "FirstMove", "WorstFish"}

\* the moves tied on the maximum that are neither capture nor check, that
\* give check, that give check without capturing, that capture
TiedQuiet == {m \in Range(worstMoves) : ~isCapture[m] /\ ~isCheck[m]}

TiedChecking == {m \in Range(worstMoves) : isCheck[m]}

TiedPureChecking == {m \in Range(worstMoves) : isCheck[m] /\ ~isCapture[m]}

MaxEvaluation == CHOOSE e \in Range(evaluations) : \A f \in Range(evaluations) : f <= e

ScanDone == pc = "returned" \/ (pc = "loop" /\ i > Len(legalMoves))

\* C1: a search call of RandomMove, Alphabetical, FirstMove or WorstFish that
\* returns yields one move, and that move is one of the legal moves the
\* position had when the call started.
C1_ReturnsLegalMove ==
    (policy \in SourcePolicies /\ pc = "returned")
        => /\ result # NoMove
           /\ result \in Range(board.moves)

C1_Witness ==
    /\ policy = "WorstFish"
    /\ pc = "returned"
    /\ Len(board.moves) = 3
    /\ queries = 3
    /\ result = 2

\* C2: in WorstFish.search the position at every oracle query is the
\* original position with exactly the probed candidate applied, between
\* probes nothing is applied, and when search returns the position has its
\* legal moves and side to move of before the call.
C2_PushPopPaired ==
    policy = "WorstFish"
        => /\ pc = "evaluate" => board.stack = <<legalMoves[i]>>
           /\ pc = "loop" => board.stack = <<>>
           /\ pc = "returned" => /\ board.stack = <<>>
                                 /\ LegalMoves(board) = board.moves
                                 /\ Turn(board) = board.turn

C2_Witness ==
    /\ policy = "WorstFish"
    /\ pc = "returned"
    /\ queries >= 2
    /\ ~board.turn
    /\ LegalMoves(board) = board.moves

\* C3: every time limit WorstFish hands to the oracle is strictly positive.
C3_OracleLimitPositive ==
    policy = "WorstFish" => \A l \in limitsHanded : DPositive(l)

\* C4 as stated: among the moves tied at the maximum a quiet move is
\* returned if there is one, else a move that gives check if there is one,
\* and a capture only when no quiet and no checking move is tied.
C4_TieBreakAnyCheck ==
    (policy = "WorstFish" /\ pc = "returned")
        => /\ TiedQuiet # {} => result \in TiedQuiet
           /\ (TiedQuiet = {} /\ TiedChecking # {}) => isCheck[result]
           /\ isCapture[result] => (TiedQuiet = {} /\ TiedChecking = {})

\* C4 amended: a move that both captures and gives check counts as a
\* capture.  A quiet move is returned if one is tied, else a checking move
\* that does not capture if one is tied, and a capture only when neither a
\* quiet move nor a non-capturing check is tied.
C4_TieBreakOrder ==
    (policy = "WorstFish" /\ pc = "returned")
        => /\ result \in Range(worstMoves)
           /\ TiedQuiet # {} => result \in TiedQuiet
           /\ (TiedQuiet = {} /\ TiedPureChecking # {}) => result \in TiedPureChecking
           /\ isCapture[result] => (TiedQuiet = {} /\ TiedPureChecking = {})

C4_Witness ==
    /\ policy = "WorstFish"
    /\ pc = "returned"
    /\ Len(worstMoves) = 3
    /\ \E m \in Range(worstMoves) : isCapture[m] /\ isCheck[m]
    /\ TiedPureChecking # {}
    /\ TiedQuiet = {}
    /\ result \in TiedPureChecking

\* C5: once the scan loop is over the tie set is exactly the set of legal
\* moves whose evaluation is the maximum over all legal moves, and the move
\* returned has that maximal evaluation.
C5_ReturnsMaximal ==
    (policy = "WorstFish" /\ ScanDone)
        => /\ Len(evaluations) = Len(legalMoves)
           /\ worstEvaluation = Some(MaxEvaluation)
           /\ Range(worstMoves) =
                {legalMoves[k] : k \in {j \in 1..Len(legalMoves) :
                                          evaluations[j] = MaxEvaluation}}
           /\ pc = "returned" =>
                \E k \in 1..Len(legalMoves) :
                    /\ legalMoves[k] = result
                    /\ \A j \in 1..Len(legalMoves) : evaluations[j] <= evaluations[k]

C5_Witness ==
    /\ policy = "WorstFish"
    /\ pc = "returned"
    /\ evaluations = <<1, 0, 1>>
    /\ worstMoves = <<1, 3>>
    /\ result = 3

\* C6: in clock mode, for one candidate count, a later allocation with no
\* less remaining time gets no less search time; the search time is never
\* above the base 0.1 s, is below it only when the test
\* count * 0.1 > remaining / 10 of the code is true (which needs
\* remaining <= count seconds), and is then (remaining / 10) / count; the
\* test is true whenever remaining < count seconds; in fixed-limit mode
\* the search time is the base.
C6_BudgetMonotone ==
    /\ [](pc = "budget" =>
            LET n == Len(legalMoves)
            IN  /\ timeLeft.isLimit => searchTime = BaseSearchTime
                /\ DLeq(searchTime, BaseSearchTime)
                /\ ~timeLeft.isLimit =>
                     /\ DLess(searchTime, BaseSearchTime)
                          => /\ ShrinkGuard(timeLeft.ms, n)
                             /\ n * MsPerSecond >= timeLeft.ms
                     /\ n * MsPerSecond > timeLeft.ms => ShrinkGuard(timeLeft.ms, n)
                     /\ ShrinkGuard(timeLeft.ms, n)
                          => searchTime = DDivInt(TenthOfTimeLeft(timeLeft.ms), n))
    /\ [][(/\ pc = "budget"
           /\ pc' = "budget"
           /\ ~timeLeft.isLimit
           /\ ~timeLeft'.isLimit
           /\ Len(legalMoves) = Len(legalMoves')
           /\ timeLeft.ms <= timeLeft'.ms) => DLeq(searchTime, searchTime')]_vars

C6_Witness ==
    /\ pc = "budget"
    /\ Len(legalMoves) = 3
    /\ timeLeft = Clock(3000)
    /\ DLess(searchTime, BaseSearchTime)

\* C7: however often quit is called, the oracle handle is closed once.
C7_ClosedOnce == closeCalls <= 1

\* C8: when the oracle fails during a query of WorstFish.search the call
\* ends with the failure: no move is returned, and the candidate whose
\* query failed is the last one queried.
C8_OracleFailurePropagates ==
    (policy = "WorstFish" /\ oracleFailed)
        => /\ pc = "raised"
           /\ error # ""
           /\ result = NoMove
           /\ queries = i
           /\ Len(evaluations) = i - 1

C8_Witness ==
    /\ policy = "WorstFish"
    /\ oracleFailed
    /\ pc = "raised"
    /\ i = 2
    /\ Len(legalMoves) = 3

\* C9: search_with_ponder hands search white's clock when white is to move
\* and black's when black is to move, with the ponder flag it was given,
\* and returns the move search returned; on MinimalEngine itself the call
\* ends in NotImplementedError and no move is returned.
C9_PonderDelegates ==
    /\ (caller = "search_with_ponder" /\ pc # "idle")
         => /\ timeLeft = Clock(IF board.turn THEN wtime ELSE btime)
            /\ searchPonder = ponder
    /\ pc = "done" => (ponderResult = result /\ result \in Range(board.moves))
    /\ pc # "done" => ponderResult = NoMove
    /\ (policy = "MinimalEngine" /\ pc # "idle")
         => /\ pc \in {"search", "raised"}
            /\ result = NoMove
            /\ pc = "raised" => error = "NotImplementedError"

C9_Witness ==
    /\ pc = "done"
    /\ ~board.turn
    /\ wtime = 60000
    /\ btime = 250
    /\ timeLeft = Clock(250)
    /\ ponder
    /\ ponderResult = result

\* C10: in ILoveDraws the first candidate whose |evaluation| is within the
\* threshold ends the call: it is returned with the position restored, it
\* is the last candidate queried, and when it is the first of the shuffled
\* order the oracle was queried once.
C10_EarlyExit ==
    policy = "ILoveDraws"
        => /\ \A k \in 1..Len(evaluations) :
                Drawish(evaluations[k])
                    => /\ k = Len(evaluations)
                       /\ queries = k
                       /\ pc = "returned"
                       /\ result = legalMoves[k]
                       /\ board.stack = <<>>
           /\ (Len(evaluations) >= 1 /\ Drawish(evaluations[1])) => queries = 1

C10_Witness ==
    /\ policy = "ILoveDraws"
    /\ pc = "returned"
    /\ Len(legalMoves) = 3
    /\ evaluations = <<0>>
    /\ queries = 1
    /\ result = legalMoves[1]
    /\ result = 3

====
